---- MODULE Spec2Model ----
(***************************************************************************)
(* Model of `step certificate verify` (command/certificate/verify.go).     *)
(*                                                                         *)
(* One invocation of verifyAction is followed from its argument check to   *)
(* its return.  The position in the function is pc; the local variables of *)
(* the function are the variables of the module.  Inputs (arguments, file  *)
(* content, peer chain, clock) are drawn where the code reads them.        *)
(***************************************************************************)
EXTENDS Integers, Sequences, FiniteSets

\* ------------------------------------------------------------------------
\* Bounds of the model
\* ------------------------------------------------------------------------
\* longest certificate file, counted in PEM blocks / stretches of other text
MaxLen == 3
\* longest chain a remote peer presents
MaxChain == 2

\* ------------------------------------------------------------------------
\* Certificates.  A certificate is identified by a number 1..NumCerts; its
\* validity window is given in whole hours by NotBefore and NotAfter.
\* ------------------------------------------------------------------------
NumCerts == 3
CertIds == 1..NumCerts
NoCert == 0

NotBefore(c) == CASE c = 1 -> 0
                  [] c = 2 -> 50
                  [] c = 3 -> 100
                  [] OTHER -> 0

NotAfter(c) == CASE c = 1 -> 1000
                 [] c = 2 -> 50
                 [] c = 3 -> 0
                 [] OTHER -> 100

\* the instants (hours) at which the command may be run
Clock == {-10, 0, 15, 50, 100, 500, 660, 665, 700, 900, 905, 910, 999, 1000, 1001}

\* ------------------------------------------------------------------------
\* The content of the certificate file: a sequence of items.  An item is a
\* PEM block (type CERTIFICATE or PRIVATE KEY) or a stretch of text that is
\* no PEM block (type "junk").  der is the certificate the block's bytes
\* parse to, NoCert when they do not parse as a certificate.  hdr tells
\* whether the block carries PEM headers (lines "Key: value" after the
\* BEGIN line).
\* ------------------------------------------------------------------------
Junk == [type |-> "junk", der |-> NoCert, hdr |-> FALSE]
KeyBlock == [type |-> "PRIVATE KEY", der |-> NoCert, hdr |-> FALSE]
CertBlock(d, h) == [type |-> "CERTIFICATE", der |-> d, hdr |-> h]
NilBlock == [type |-> "nil", der |-> NoCert, hdr |-> FALSE]

\* the certificates that occur in certificate files
FileCerts == {1, 2}

Items == {Junk, KeyBlock}
             \cup {CertBlock(d, h) : d \in {NoCert} \cup FileCerts, h \in BOOLEAN}

SeqsUpTo(S, n) == UNION {[1..k -> S] : k \in 0..n}

Buffers == SeqsUpTo(Items, MaxLen)

PeerChains == SeqsUpTo(CertIds, MaxChain)

\* pem.Decode: the position of the first PEM block in data, 0 when there is
\* none.  Text before the block is passed over.
RECURSIVE DecodeIdx(_, _)
DecodeIdx(data, i) ==
    IF i > Len(data) THEN 0
    ELSE IF data[i].type # "junk" THEN i
    ELSE DecodeIdx(data, i + 1)

\* a Decode that does not consume a block of a type other than CERTIFICATE
DecodeRest_Stuck(data) ==
    LET i == DecodeIdx(data, 1) IN
    IF i = 0 THEN data
    ELSE IF data[i].type # "CERTIFICATE" THEN data
    ELSE SubSeq(data, i + 1, Len(data))

\* pem.Decode returns (block, rest); with no block found, (nil, data).
DecodeBlock(data) ==
    LET i == DecodeIdx(data, 1) IN IF i = 0 THEN NilBlock ELSE data[i]

DecodeRest(data) ==
    LET i == DecodeIdx(data, 1) IN
    IF i = 0 THEN data ELSE SubSeq(data, i + 1, Len(data))

\* x509.ParseCertificate(block.Bytes): the certificate, NoCert on error
ParseCertificate(block) == block.der

\* pem.EncodeToMemory(block): the PEM text of one block, its headers
\* written out again
EncodeToMemory(block) == <<[type |-> block.type, der |-> block.der, hdr |-> block.hdr]>>

\* CertPool.AppendCertsFromPEM: the certificates added from pemCerts.  It
\* stops at text that holds no further block, passes over blocks of another
\* type, over blocks that carry headers and over certificates that do not
\* parse.
RECURSIVE AppendCertsFromPEM(_)
AppendCertsFromPEM(pemCerts) ==
    IF Len(pemCerts) = 0 THEN {}
    ELSE LET block == DecodeBlock(pemCerts)
             rest == DecodeRest(pemCerts)
         IN IF block = NilBlock THEN {}
            ELSE IF block.type # "CERTIFICATE" \/ block.hdr THEN AppendCertsFromPEM(rest)
            ELSE IF ParseCertificate(block) = NoCert THEN AppendCertsFromPEM(rest)
            ELSE {ParseCertificate(block)} \cup AppendCertsFromPEM(rest)

\* ------------------------------------------------------------------------
\* float64 arithmetic.  The magnitude of a finite value is held exactly as a
\* binary fixed-point number of W bits: bit 1 is the most significant, bit IB
\* has weight 1, bit IB+j has weight 2^-j.  Every float64 the computation of
\* percentUsed meets on the inputs above has at most 53 significant bits
\* inside this window; Round53 is the IEEE-754 round-to-nearest-even step
\* that follows each operation.
\* ------------------------------------------------------------------------
IB == 20
FB == 64
W == IB + FB

\* a magnitude is a sequence of W bits
Bits(f) == SubSeq(f, 1, W)

Zero == Bits([i \in 1..W |-> 0])
One == Bits([i \in 1..W |-> IF i = IB THEN 1 ELSE 0])

RECURSIVE Pow2(_)
Pow2(n) == IF n = 0 THEN 1 ELSE 2 * Pow2(n - 1)

Abs(x) == IF x < 0 THEN -x ELSE x

\* 2^j modulo t
RECURSIVE PowMod2(_, _)
PowMod2(j, t) ==
    IF j = 0 THEN 1 % t
    ELSE LET h == PowMod2(j \div 2, t)
         IN (((h * h) % t) * (IF j % 2 = 1 THEN 2 ELSE 1)) % t

\* the remainder of the long division of r by t after j bits of fraction
RatioRem(r, t, j) == ((r % t) * PowMod2(j, t)) % t

\* the first W bits of the quotient r/t of two naturals, t > 0
FromRatio(r, t) ==
    Bits([i \in 1..W |-> IF i <= IB THEN ((r \div t) \div Pow2(IB - i)) % 2
                         ELSE (2 * RatioRem(r, t, i - IB - 1)) \div t])

\* whether r/t has non-zero bits below the window
RatioSticky(r, t) == RatioRem(r, t, FB) # 0

\* round a magnitude to 53 significant bits, ties to even; sticky tells
\* whether the exact value has non-zero bits below the window
Round53(m, sticky) ==
    IF m = Zero THEN Zero
    ELSE LET lead == CHOOSE i \in 1..W : m[i] = 1 /\ \A k \in 1..(i - 1) : m[k] = 0
             last == lead + 52
         IN IF last >= W THEN m
            ELSE LET st == sticky \/ \E i \in (last + 2)..W : m[i] = 1
                     up == m[last + 1] = 1 /\ (st \/ m[last] = 1)
                     j == CHOOSE j \in 1..last :
                              m[j] = 0 /\ \A k \in (j + 1)..last : m[k] = 1
                 IN Bits([i \in 1..W |->
                            IF i > last THEN 0
                            ELSE IF ~up THEN m[i]
                            ELSE IF i = j THEN 1
                            ELSE IF i > j THEN 0
                            ELSE m[i]])

\* the carry into bit i of the sum of two magnitudes: some lower bit
\* generates a carry and every bit in between propagates it
Carry(a, b, i) ==
    \E j \in (i + 1)..W :
        a[j] + b[j] = 2 /\ \A k \in (i + 1)..(j - 1) : a[k] + b[k] = 1

\* exact sum of two magnitudes
AddMag(a, b) ==
    Bits([i \in 1..W |-> (a[i] + b[i] + (IF Carry(a, b, i) THEN 1 ELSE 0)) % 2])

\* a >= b on magnitudes
GeqMag(a, b) ==
    \/ a = b
    \/ LET i == CHOOSE i \in 1..W : a[i] # b[i] /\ \A k \in 1..(i - 1) : a[k] = b[k]
       IN a[i] > b[i]

\* the borrow taken from bit i in the difference a - b
Borrow(a, b, i) ==
    \E j \in (i + 1)..W :
        a[j] < b[j] /\ \A k \in (i + 1)..(j - 1) : a[k] = b[k]

\* exact difference a - b of two magnitudes, a >= b
SubMag(a, b) ==
    Bits([i \in 1..W |-> (a[i] - b[i] - (IF Borrow(a, b, i) THEN 1 ELSE 0) + 2) % 2])

\* a * 2^k
Shl(a, k) == Bits([i \in 1..W |-> IF i + k <= W THEN a[i + k] ELSE 0])

\* exact product a * 100 = a*64 + a*32 + a*4
Mul100Mag(a) == AddMag(AddMag(Shl(a, 6), Shl(a, 5)), Shl(a, 2))

\* the integer part of a magnitude
RECURSIVE IntVal(_, _)
IntVal(m, i) == IF i = 0 THEN 0 ELSE 2 * IntVal(m, i - 1) + m[i]

Fin(neg, mag) == [kind |-> "fin", neg |-> neg, mag |-> mag]
Inf(neg) == [kind |-> "inf", neg |-> neg, mag |-> Zero]
NaN == [kind |-> "nan", neg |-> FALSE, mag |-> Zero]

\* float64 quotient of two whole numbers (both exactly representable)
FDiv(r, t) ==
    IF t = 0 THEN (IF r = 0 THEN NaN ELSE Inf(r < 0))
    ELSE Fin((r < 0) # (t < 0) /\ r # 0,
             Round53(FromRatio(Abs(r), Abs(t)), RatioSticky(Abs(r), Abs(t))))

\* float64 difference 1 - x
OneMinus(x) ==
    IF x.kind = "nan" THEN NaN
    ELSE IF x.kind = "inf" THEN Inf(~x.neg)
    ELSE IF x.neg THEN Fin(FALSE, Round53(AddMag(One, x.mag), FALSE))
    ELSE IF GeqMag(One, x.mag) THEN Fin(FALSE, Round53(SubMag(One, x.mag), FALSE))
    ELSE Fin(TRUE, Round53(SubMag(x.mag, One), FALSE))

\* float64 product x * 100
Times100(x) ==
    IF x.kind # "fin" THEN x
    ELSE Fin(x.neg, Round53(Mul100Mag(x.mag), FALSE))

\* Conversion of a float64 to int.  A finite value is truncated toward zero.
\* For NaN and the infinities the Go specification leaves the result to the
\* implementation: amd64 yields the smallest int64, arm64 saturates (and
\* yields 0 for NaN).  IntMin and IntMax stand for the two extreme int64
\* values; percentUsed is only ever compared with the band limits.
IntMin == -2147483647
IntMax == 2147483647

\* a conversion that rounds to the nearest integer instead
ToInt_Round(x) ==
    IF x.kind = "fin"
    THEN {IF x.neg THEN -(IntVal(x.mag, IB) + x.mag[IB + 1])
          ELSE IntVal(x.mag, IB) + x.mag[IB + 1]}
    ELSE {IntMin, 0, IntMax}

ToInt(x) ==
    IF x.kind = "fin"
    THEN {IF x.neg THEN -IntVal(x.mag, IB) ELSE IntVal(x.mag, IB)}
    ELSE {IntMin, 0, IntMax}

\* lines 183-186: the values percentUsed can take for certificate c at
\* instant now
remainingValidity(c, t) == NotAfter(c) - t
totalValidity(c) == NotAfter(c) - NotBefore(c)

PercentUsed(c, t) ==
    ToInt(Times100(OneMinus(FDiv(remainingValidity(c, t), totalValidity(c)))))

\* PercentUsed for every certificate and instant of the model, as the set of
\* the triples <<certificate, instant, value>>
PercentUsedAt ==
    UNION {{<<x[1], x[2], p>> : p \in PercentUsed(x[1], x[2])} : x \in CertIds \X Clock}

PercentUsedOf(c, t) == {e[3] : e \in {d \in PercentUsedAt : d[1] = c /\ d[2] = t}}

\* set of the elements of a sequence
Range(s) == {s[i] : i \in 1..Len(s)}

\* ------------------------------------------------------------------------
\* Collaborators of verifyAction that live in other files of the repository
\* ------------------------------------------------------------------------
\* the values of the --roots flag: none, a bundle that loads, one that does
\* not
RootSources == {"", "roots.pem", "missing.pem"}

\* x509util.ReadCertPool: the pool loaded from a root source, "nil" together
\* with an error when a referenced file cannot be read or holds no
\* certificate
ReadCertPoolFails(r) == r = "missing.pem"
ReadCertPool(r) == IF ReadCertPoolFails(r) THEN "nil" ELSE "loaded"

\* getPeerCertificates(addr, serverName, roots, insecure): the error it
\* returns, "" when it returns the peer's chain.  connects: the transport
\* connection is established; trusted: the peer's chain verifies during the
\* handshake; skipVerify: the handshake skips that verification.
GetPeerCertificatesErr(connects, trusted, chain, skipVerify) ==
    IF ~connects THEN "ConnectionError"
    ELSE IF ~skipVerify /\ ~trusted THEN "ConnectionError"
    ELSE IF Len(chain) = 0 THEN "EmptyPeerChain"
    ELSE ""

\* line 127: the last argument of the call of getPeerCertificates
InsecureArg == FALSE

\* ------------------------------------------------------------------------
\* Verdancy banding, lines 193-205: the level printed for percentUsed,
\* NoLevel when the last branch returns the error
\* ------------------------------------------------------------------------
NoLevel == -1

Band(p) ==
    IF p >= 100 THEN 3
    ELSE IF p > 90 THEN 2
    ELSE IF p > 66 /\ p < 90 THEN 1
    ELSE IF p < 66 /\ p > 1 THEN 0
    ELSE IF p < 1 THEN 0
    ELSE NoLevel

\* ------------------------------------------------------------------------
\* State
\* ------------------------------------------------------------------------
VARIABLES
    pc,                \* position in verifyAction
    source,            \* "none", "url" or "file": what crtFile turned out to be
    verdancy,          \* --verdancy
    roots,             \* --roots
    input,             \* the content read from crtFile
    crtBytes,          \* the part of the content not yet decoded
    peerCertificates,  \* the chain returned by getPeerCertificates
    insecure,          \* the flag passed to getPeerCertificates: "unset" before
                       \* the call, then "true" or "false"
    cert,              \* the leaf certificate, NoCert for nil
    ipems,             \* the re-encoded certificate blocks after the first
    intermediatePool,  \* the certificates of the intermediate pool
    rootPool,          \* "nil" or "loaded"
    rootErr,           \* ReadCertPool returned an error
    now,               \* the clock read by time.Until
    percentUsed,       \* line 186
    level,             \* the level printed, NoLevel when none was printed
    verified,          \* cert.Verify was called
    result             \* "" while running, "ok" for a nil return, else the error

vars == <<pc, source, verdancy, roots, input, crtBytes, peerCertificates, insecure,
          cert, ipems, intermediatePool, rootPool, rootErr, now, percentUsed,
          level, verified, result>>

Init ==
    /\ pc = "start"
    /\ source = "none"
    /\ verdancy = FALSE
    /\ roots = ""
    /\ input = <<>>
    /\ crtBytes = <<>>
    /\ peerCertificates = <<>>
    /\ insecure = "unset"
    /\ cert = NoCert
    /\ ipems = <<>>
    /\ intermediatePool = {}
    /\ rootPool = "nil"
    /\ rootErr = FALSE
    /\ now = 0
    /\ percentUsed = 0
    /\ level = NoLevel
    /\ verified = FALSE
    /\ result = ""

\* return err / return nil
Return(r) == pc' = "done" /\ result' = r

\* lines 109-122: the argument count is checked and the flags are read
ReadArgs ==
    /\ pc = "start"
    /\ \E nargs \in 0..2, v \in BOOLEAN, r \in RootSources :
          IF nargs # 1
          THEN /\ Return("NumberOfArguments")
               /\ UNCHANGED <<verdancy, roots>>
          ELSE /\ pc' = "trim"
               /\ verdancy' = v
               /\ roots' = r
               /\ UNCHANGED result
    /\ UNCHANGED <<source, input, crtBytes, peerCertificates, insecure, cert, ipems,
                   intermediatePool, rootPool, rootErr, now, percentUsed, level, verified>>

\* lines 124-126 and 135: trimURL(crtFile) tells a URL from a path, or fails
TrimURL ==
    /\ pc = "trim"
    /\ \E kind \in {"error", "url", "file"} :
          IF kind = "error"
          THEN Return("TrimURL") /\ UNCHANGED source
          ELSE /\ source' = kind
               /\ pc' = IF kind = "url" THEN "fetch" ELSE "read"
               /\ UNCHANGED result
    /\ UNCHANGED <<verdancy, roots, input, crtBytes, peerCertificates, insecure, cert,
                   ipems, intermediatePool, rootPool, rootErr, now, percentUsed, level,
                   verified>>

\* lines 127-134: the peer's chain is fetched; its first certificate is the
\* leaf and every certificate of the chain is added to the intermediate pool
FetchPeer ==
    /\ pc = "fetch"
    /\ insecure' = (IF InsecureArg THEN "true" ELSE "false")
    /\ \E connects \in BOOLEAN, trusted \in BOOLEAN, chain \in PeerChains :
          LET err == GetPeerCertificatesErr(connects, trusted, chain, InsecureArg) IN
          IF err # ""
          THEN /\ Return(err)
               /\ UNCHANGED <<peerCertificates, cert, intermediatePool>>
          ELSE /\ peerCertificates' = chain
               /\ cert' = chain[1]
               /\ intermediatePool' = intermediatePool \cup Range(chain)
               /\ pc' = "roots"
               /\ UNCHANGED result
    /\ UNCHANGED <<source, verdancy, roots, input, crtBytes, ipems, rootPool, rootErr,
                   now, percentUsed, level, verified>>

\* lines 136-144: the file is read
ReadFile ==
    /\ pc = "read"
    /\ \E readable \in BOOLEAN, bytes \in Buffers :
          IF ~readable
          THEN Return("FileError") /\ UNCHANGED <<input, crtBytes>>
          ELSE /\ input' = bytes
               /\ crtBytes' = bytes
               /\ pc' = "loop"
               /\ UNCHANGED result
    /\ UNCHANGED <<source, verdancy, roots, peerCertificates, insecure, cert, ipems,
                   intermediatePool, rootPool, rootErr, now, percentUsed, level, verified>>

\* an iteration that takes a nil block for the end of the input
DecodeStep_NilEnds ==
    /\ pc = "loop"
    /\ Len(crtBytes) > 0
    /\ LET block == DecodeBlock(crtBytes)
           rest == DecodeRest(crtBytes)
       IN IF block = NilBlock
          THEN crtBytes' = <<>> /\ UNCHANGED <<pc, result, cert, ipems>>
          ELSE /\ crtBytes' = rest
               /\ IF block.type # "CERTIFICATE"
                  THEN UNCHANGED <<pc, result, cert, ipems>>
                  ELSE IF cert = NoCert
                  THEN IF ParseCertificate(block) = NoCert
                       THEN Return("ParseCertificate") /\ UNCHANGED <<cert, ipems>>
                       ELSE /\ cert' = ParseCertificate(block)
                            /\ UNCHANGED <<pc, result, ipems>>
                  ELSE /\ ipems' = ipems \o EncodeToMemory(block)
                       /\ UNCHANGED <<pc, result, cert>>
    /\ UNCHANGED <<source, verdancy, roots, input, peerCertificates, insecure,
                   intermediatePool, rootPool, rootErr, now, percentUsed, level, verified>>

\* lines 148-164: one iteration of the decoding loop
DecodeStep ==
    /\ pc = "loop"
    /\ Len(crtBytes) > 0
    /\ LET block == DecodeBlock(crtBytes)
           rest == DecodeRest(crtBytes)
       IN /\ crtBytes' = rest
          /\ IF block = NilBlock
             THEN Return("InvalidPEMBlock") /\ UNCHANGED <<cert, ipems>>
             ELSE IF block.type # "CERTIFICATE"
             THEN UNCHANGED <<pc, result, cert, ipems>>
             ELSE IF cert = NoCert
             THEN IF ParseCertificate(block) = NoCert
                  THEN Return("ParseCertificate") /\ UNCHANGED <<cert, ipems>>
                  ELSE /\ cert' = ParseCertificate(block)
                       /\ UNCHANGED <<pc, result, ipems>>
             ELSE /\ ipems' = ipems \o EncodeToMemory(block)
                  /\ UNCHANGED <<pc, result, cert>>
    /\ UNCHANGED <<source, verdancy, roots, input, peerCertificates, insecure,
                   intermediatePool, rootPool, rootErr, now, percentUsed, level, verified>>

\* an end of file without the test for a missing leaf on line 165
EndOfFile_NoLeafCheck ==
    /\ pc = "loop"
    /\ Len(crtBytes) = 0
    /\ IF Len(ipems) > 0 /\ AppendCertsFromPEM(ipems) = {}
       THEN Return("IntermediateList") /\ UNCHANGED intermediatePool
       ELSE /\ intermediatePool' = intermediatePool \cup AppendCertsFromPEM(ipems)
            /\ pc' = "roots"
            /\ UNCHANGED result
    /\ UNCHANGED <<source, verdancy, roots, input, crtBytes, peerCertificates, insecure,
                   cert, ipems, rootPool, rootErr, now, percentUsed, level, verified>>

\* lines 148 and 165-170: the buffer is exhausted; a leaf must have been
\* found and the intermediates are parsed into the pool
EndOfFile ==
    /\ pc = "loop"
    /\ Len(crtBytes) = 0
    /\ IF cert = NoCert
       THEN Return("NoPEMCertificate") /\ UNCHANGED intermediatePool
       ELSE IF Len(ipems) > 0 /\ AppendCertsFromPEM(ipems) = {}
       THEN Return("IntermediateList") /\ UNCHANGED intermediatePool
       ELSE /\ intermediatePool' = intermediatePool \cup AppendCertsFromPEM(ipems)
            /\ pc' = "roots"
            /\ UNCHANGED result
    /\ UNCHANGED <<source, verdancy, roots, input, crtBytes, peerCertificates, insecure,
                   cert, ipems, rootPool, rootErr, now, percentUsed, level, verified>>

\* lines 173-179: the root pool is loaded when --roots is given; the error
\* of ReadCertPool is wrapped and the wrapped error is dropped
LoadRoots ==
    /\ pc = "roots"
    /\ IF roots # ""
       THEN /\ rootPool' = ReadCertPool(roots)
            /\ rootErr' = ReadCertPoolFails(roots)
       ELSE UNCHANGED <<rootPool, rootErr>>
    /\ pc' = "mode"
    /\ UNCHANGED <<source, verdancy, roots, input, crtBytes, peerCertificates, insecure,
                   cert, ipems, intermediatePool, now, percentUsed, level, verified,
                   result>>

\* lines 181-222: the verdancy level of the leaf is printed
Verdancy ==
    /\ pc = "mode"
    /\ verdancy
    /\ \E t \in Clock : \E p \in PercentUsedOf(cert, t) :
          /\ now' = t
          /\ percentUsed' = p
          /\ level' = Band(p)
          /\ Return(IF Band(p) = NoLevel THEN "VerdancyUndetermined" ELSE "ok")
    /\ UNCHANGED <<source, verdancy, roots, input, crtBytes, peerCertificates, insecure,
                   cert, ipems, intermediatePool, rootPool, rootErr, verified>>

\* lines 224-239: path validation of the leaf against the two pools
Verify ==
    /\ pc = "mode"
    /\ ~verdancy
    /\ verified' = TRUE
    /\ \E valid \in BOOLEAN : Return(IF valid THEN "ok" ELSE "VerifyFailed")
    /\ UNCHANGED <<source, verdancy, roots, input, crtBytes, peerCertificates, insecure,
                   cert, ipems, intermediatePool, rootPool, rootErr, now, percentUsed,
                   level>>

Next ==
    \/ ReadArgs
    \/ TrimURL
    \/ FetchPeer
    \/ ReadFile
    \/ DecodeStep
    \/ EndOfFile
    \/ LoadRoots
    \/ Verdancy
    \/ Verify

Spec == Init /\ [][Next]_vars

\* The decoding of the certificate file on its own (lines 136-170): the
\* function has read its arguments and found crtFile to be a path; the steps
\* are the reading of the file, the iterations of the loop and its exit.  The
\* function runs on from one step to the next.
DecodeInit ==
    /\ pc = "read"
    /\ source = "file"
    /\ verdancy = FALSE
    /\ roots = ""
    /\ input = <<>>
    /\ crtBytes = <<>>
    /\ peerCertificates = <<>>
    /\ insecure = "unset"
    /\ cert = NoCert
    /\ ipems = <<>>
    /\ intermediatePool = {}
    /\ rootPool = "nil"
    /\ rootErr = FALSE
    /\ now = 0
    /\ percentUsed = 0
    /\ level = NoLevel
    /\ verified = FALSE
    /\ result = ""

DecodeNext ==
    \/ ReadFile
    \/ DecodeStep
    \/ EndOfFile

DecodeSpec == DecodeInit /\ [][DecodeNext]_vars /\ WF_vars(DecodeNext)

TypeOK ==
    /\ pc \in {"start", "trim", "fetch", "read", "loop", "roots", "mode", "done"}
    /\ cert \in {NoCert} \cup CertIds
    /\ intermediatePool \subseteq CertIds
    /\ level \in {NoLevel, 0, 1, 2, 3}
    /\ (pc = "done") = (result # "")

\* ------------------------------------------------------------------------
\* Properties
\* ------------------------------------------------------------------------
\* the errors returned before the root pool is loaded
EarlyErrors == {"NumberOfArguments", "TrimURL", "ConnectionError", "EmptyPeerChain",
                "FileError", "InvalidPEMBlock", "ParseCertificate", "NoPEMCertificate",
                "IntermediateList"}

\* the errors of the decoding of the file
DecodeErrors == {"InvalidPEMBlock", "ParseCertificate", "NoPEMCertificate",
                 "IntermediateList"}

\* the function returned from the verdancy branch
VerdancyRan == pc = "done" /\ verdancy /\ result \notin EarlyErrors

\* the file was read and its decoding came to an end without error
Decomposed ==
    /\ source = "file"
    /\ \/ pc \in {"roots", "mode"}
       \/ pc = "done" /\ result \notin EarlyErrors

\* positions of the CERTIFICATE blocks of the file
CertIdx == {i \in 1..Len(input) : input[i].type = "CERTIFICATE"}
FirstCertIdx == CHOOSE i \in CertIdx : \A k \in CertIdx : i <= k
LaterCertIdx == CertIdx \ {FirstCertIdx}

\* the file is made of PEM blocks only, at least two of them certificates
ManyCerts ==
    /\ source = "file"
    /\ \A i \in 1..Len(input) : input[i].type # "junk"
    /\ \A i \in CertIdx : input[i].der # NoCert
    /\ Cardinality(CertIdx) >= 2

\* C1: when --roots is given and ReadCertPool returns an error, verifyAction
\* returns a failure; it does not go on to verdancy or path validation with
\* a nil root pool and does not return success.
C1_RootLoadFailureIsReturned ==
    rootErr => /\ pc = "done"
               /\ result \notin {"ok", "VerifyFailed", "VerdancyUndetermined"}
               /\ ~verified
               /\ level = NoLevel

\* C2: for a file of PEM blocks holding N >= 2 certificates, the leaf is the
\* first CERTIFICATE block, the other N-1 CERTIFICATE blocks and no other
\* block are collected, in order, and their certificates make up the
\* intermediate pool; the decoding does not fail.
C2_FirstIsLeafRestIntermediates ==
    ManyCerts =>
        /\ result \notin DecodeErrors
        /\ Decomposed =>
              /\ cert = input[FirstCertIdx].der
              /\ Len(ipems) = Cardinality(CertIdx) - 1
              /\ \A k \in 1..Len(ipems) : ipems[k].type = "CERTIFICATE"
              /\ \A i \in LaterCertIdx :
                    ipems[Cardinality({j \in LaterCertIdx : j <= i})] = input[i]
              /\ intermediatePool = {input[i].der : i \in LaterCertIdx}

\* C3 as stated: percentUsed is rounded to the nearest integer, so the
\* certificate valid from T to T+1000h gets 100 and level 3 at T+999h.
C3_RoundedToNearest ==
    (VerdancyRan /\ cert = 1 /\ now = 999) => (percentUsed = 100 /\ level = 3)

\* C3 amended: percentUsed is the float64 value of the expression truncated
\* toward zero: it never exceeds the exact percentage in magnitude and falls
\* short of it by less than two; the certificate valid from T to T+1000h
\* gets 99 and level 2 at T+999h.
C3_TruncatedTowardZero ==
    (VerdancyRan /\ totalValidity(cert) > 0) =>
        LET elapsed == now - NotBefore(cert)
            total == totalValidity(cert)
        IN /\ Abs(percentUsed) * total <= Abs(elapsed) * 100
           /\ Abs(elapsed) * 100 < (Abs(percentUsed) + 2) * total
           /\ percentUsed # 0 => (percentUsed < 0) = (elapsed < 0)
           /\ (cert = 1 /\ now = 999) => (percentUsed = 99 /\ level = 2)

C3_Witness ==
    VerdancyRan /\ cert = 1 /\ now = 999 /\ percentUsed = 99 /\ level = 2

\* C4: in verdancy mode a certificate whose validity window is zero or
\* negative makes verifyAction return DegenerateValidityWindow and print no
\* level.
C4_DegenerateWindowFails ==
    (VerdancyRan /\ totalValidity(cert) <= 0) =>
        (result = "DegenerateValidityWindow" /\ level = NoLevel)

\* C5: for a URL the leaf is the first certificate of the peer's chain and
\* the intermediate pool holds the certificates at positions 2..n only.
C5_LeafNotInIntermediates ==
    (source = "url" /\ Len(peerCertificates) > 0) =>
        /\ cert = peerCertificates[1]
        /\ intermediatePool = Range(Tail(peerCertificates))

\* C6: every call of getPeerCertificates passes the flag that skips the
\* verification of the handshake as true.
C6_FetchSkipsVerification == insecure \in {"unset", "true"}

\* C7: when what remains of the file cannot be decoded as a PEM block, that
\* is when the file ends in text that is no PEM block and the decoding gets
\* there, verifyAction returns the invalid-PEM-block error, whatever was
\* collected before, and neither prints a level nor validates a path.
C7_UndecodableRemainderFails ==
    /\ (source = "file" /\ Len(input) > 0 /\ input[Len(input)].type = "junk") =>
          /\ pc \notin {"roots", "mode"}
          /\ pc = "done" => result \in {"InvalidPEMBlock", "ParseCertificate"}
          /\ ~verified
          /\ level = NoLevel
    /\ result = "InvalidPEMBlock" =>
          /\ Len(crtBytes) > 0
          /\ \A i \in 1..Len(crtBytes) : crtBytes[i].type = "junk"

C7_Witness ==
    /\ result = "InvalidPEMBlock"
    /\ cert # NoCert
    /\ Len(ipems) > 0
    /\ Len(crtBytes) > 0

\* the file holds no CERTIFICATE block and does not end in text that is no
\* PEM block
OnlyOtherBlocks ==
    /\ source = "file"
    /\ CertIdx = {}
    /\ Len(input) > 0 => input[Len(input)].type # "junk"

\* C8: a file exhausted with only non-certificate blocks decoded, the empty
\* file included, makes verifyAction return the no-certificate error; a
\* non-certificate block is passed over without failure and the decoding
\* goes on with the rest.
C8_NoCertificateFound ==
    /\ [](OnlyOtherBlocks =>
            /\ pc \notin {"roots", "mode"}
            /\ pc = "done" => result \in {"FileError", "NoPEMCertificate"}
            /\ (pc = "done" /\ Len(input) > 0) => result = "NoPEMCertificate")
    /\ [][(pc = "loop" /\ Len(crtBytes) > 0
             /\ DecodeBlock(crtBytes).type = "PRIVATE KEY") =>
            /\ pc' = "loop"
            /\ result' = ""
            /\ Len(crtBytes') < Len(crtBytes)
            /\ \E k \in 1..Len(crtBytes) :
                  /\ crtBytes[k].type = "PRIVATE KEY"
                  /\ crtBytes' = SubSeq(crtBytes, k + 1, Len(crtBytes))
            /\ UNCHANGED <<cert, ipems>>]_vars

C8_Witness ==
    /\ OnlyOtherBlocks
    /\ Len(input) >= 2
    /\ crtBytes = <<>>
    /\ result = "NoPEMCertificate"

\* C9: the last branch of the banding is never taken: a run of the verdancy
\* branch returns success with one level in 0..3.
C9_LastBranchUnreachable ==
    /\ result # "VerdancyUndetermined"
    /\ VerdancyRan => (result = "ok" /\ level \in 0..3)

\* C10: every iteration of the decoding loop returns an error or shortens
\* the remaining buffer, a leaf once assigned is not replaced, and the loop
\* is left (checked on DecodeSpec).
C10_LoopTerminates ==
    /\ [][(pc = "loop" /\ Len(crtBytes) > 0) =>
            \/ pc' = "done" /\ result' \in DecodeErrors
            \/ pc' = "loop" /\ Len(crtBytes') < Len(crtBytes)]_vars
    /\ [][cert # NoCert => cert' = cert]_vars
    /\ (pc = "loop") ~> (pc # "loop")

C10_Witness ==
    /\ pc = "loop"
    /\ cert # NoCert
    /\ Len(crtBytes) > 0
    /\ Len(crtBytes) < Len(input)
    /\ crtBytes[1].type = "CERTIFICATE"
====
